---- MODULE Spec2Model ----
(***************************************************************************)
(* Model of ReviewAnalysisService                                          *)
(* (src/django/app/services/review_analysis_service.py): a cache-aside     *)
(* orchestrator over a Redis client, a review record store and a two-stage *)
(* analysis pipeline. Coroutines interleave at their await points; every   *)
(* action below is the code that runs between two await points.            *)
(***************************************************************************)
EXTENDS Integers, Sequences, FiniteSets, TLC

\* ------------------------------------------------------------- bounds
\* settings.review_analysis_cache_expire_time, in clock ticks.
CacheExpireTime == 1
\* Most reviews the record store holds for one company.
MaxReviews == 1

\* Most keywords or sample reviews in one section of a written result.
MaxKeywords == 1

\* The call slots: up to two coroutines of the service are in flight at once.
Calls == {1, 2}
\* The companies callers ask about; the record store knows only the first.
CompanyNames == {"Acme", "Beta"}
Reviewed == {"Acme"}

\* ------------------------------------------------------ Python values
\* A Python value is a tagged record [t |-> type name, v |-> payload].
PyNone == [t |-> "None", v |-> <<>>]
PyBool(b) == [t |-> "bool", v |-> b]
PyInt(n) == [t |-> "int", v |-> n]
PyFloat(x) == [t |-> "float", v |-> x]
PyStr(s) == [t |-> "str", v |-> s]
PyList(items) == [t |-> "list", v |-> items]
PyTuple(items) == [t |-> "tuple", v |-> items]
PyDict(fields) == [t |-> "dict", v |-> fields]
\* An instance of a class json knows nothing about (a DataFrame, ...).
PyObject(cls, rows) == [t |-> "object", v |-> [cls |-> cls, rows |-> rows]]

\* A test `is not None` in place of truthiness.
IsNotNone(x) == x.t # "None"

\* Python truthiness, as `if cached_result:` and `if company_name:` use it.
Truthy(x) ==
  CASE x.t = "None" -> FALSE
    [] x.t = "bool" -> x.v
    [] x.t \in {"int", "float"} -> x.v # 0
    [] x.t = "str" -> x.v # ""
    [] x.t \in {"list", "tuple"} -> Len(x.v) > 0
    [] x.t = "dict" -> DOMAIN x.v # {}
    [] OTHER -> TRUE

\* ---------------------------------------------------------- JSON text
\* A text held by Redis: the document json.dumps wrote, or raw characters.
JsonText(doc) == [kind |-> "json", body |-> doc]
RawText(s) == [kind |-> "raw", body |-> s]

\* json.dumps raises TypeError on an object of a class it cannot encode.
RECURSIVE Serializable(_)
Serializable(x) ==
  CASE x.t = "object" -> FALSE
    [] x.t \in {"list", "tuple"} -> \A i \in 1..Len(x.v) : Serializable(x.v[i])
    [] x.t = "dict" -> \A k \in DOMAIN x.v : Serializable(x.v[k])
    [] OTHER -> TRUE

\* The JSON document json.dumps writes: lists and tuples both become arrays.
RECURSIVE ToJson(_)
ToJson(x) ==
  CASE x.t = "None" -> [j |-> "null", v |-> <<>>]
    [] x.t = "bool" -> [j |-> "bool", v |-> x.v]
    [] x.t = "int" -> [j |-> "int", v |-> x.v]
    [] x.t = "float" -> [j |-> "real", v |-> x.v]
    [] x.t = "str" -> [j |-> "string", v |-> x.v]
    [] x.t \in {"list", "tuple"} ->
         [j |-> "array", v |-> [i \in 1..Len(x.v) |-> ToJson(x.v[i])]]
    [] x.t = "dict" ->
         [j |-> "object", v |-> [k \in DOMAIN x.v |-> ToJson(x.v[k])]]

\* The Python value json.loads builds from a JSON document.
RECURSIVE FromJson(_)
FromJson(d) ==
  CASE d.j = "null" -> PyNone
    [] d.j = "bool" -> PyBool(d.v)
    [] d.j = "int" -> PyInt(d.v)
    [] d.j = "real" -> PyFloat(d.v)
    [] d.j = "string" -> PyStr(d.v)
    [] d.j = "array" -> PyList([i \in 1..Len(d.v) |-> FromJson(d.v[i])])
    [] d.j = "object" -> PyDict([k \in DOMAIN d.v |-> FromJson(d.v[k])])

\* A write path that stores str(value) instead of a JSON document.
json_dumps_repr(value) == RawText(value.t)

json_dumps(value) == JsonText(ToJson(value))

\* json.loads raises JSONDecodeError on text that is no JSON document.
Parseable(text) == text.kind = "json"
json_loads(text) == FromJson(text.body)

\* ------------------------------------------------------------ cache keys
\* hashlib.md5(name.encode()).hexdigest() on the names of the model.
md5hex(name) ==
  CASE name = "" -> "d41d8cd98f00b204e9800998ecf8427e"
    [] name = "Acme" -> "79d894520f4f94c267986a819e110bec"
    [] name = "Beta" -> "0b87d66b88c72957dfea8c9605016442"

\* A key derivation that ignores the company name.
_get_cache_key_fixed(company_name) ==
  [ns |-> "review_analysis", digest |-> md5hex("")]

\* f"review_analysis:{company_hash}", kept as its two parts.
_get_cache_key(company_name) ==
  [ns |-> "review_analysis", digest |-> md5hex(company_name)]

\* A key of another application sharing the Redis instance.
ForeignKey == [ns |-> "session", digest |-> "0001"]

\* A pattern of "*": every key of the Redis instance matches.
MatchesAnyKey(key) == TRUE

\* Glob match of a key against the pattern "review_analysis:*".
MatchesPattern(key) == key.ns = "review_analysis"

\* ------------------------------------------------- the cache as a map
\* Redis holds a map from the keys present to [val: text, ttl: ticks left];
\* ttl = -1 is an entry without expiry.
Put(c, key, entry) ==
  [x \in DOMAIN c \cup {key} |-> IF x = key THEN entry ELSE c[x]]
Remove(c, ks) == [x \in DOMAIN c \ ks |-> c[x]]

\* One tick of the Redis clock: entries on their last tick are dropped.
Expire(c) ==
  [x \in {y \in DOMAIN c : c[y].ttl # 1} |->
     IF c[x].ttl > 1 THEN [c[x] EXCEPT !.ttl = @ - 1] ELSE c[x]]

\* ------------------------------------------ record store and pipeline
\* company_review_model.get_reviews_by_company(name) with n reviews stored.
get_reviews_by_company(name, n) ==
  PyList([i \in 1..n |-> PyDict([company |-> PyStr(name), no |-> PyInt(i)])])

\* ReviewDataset.preprocess_reviews: a table with one row per review.
preprocess_reviews(reviews) == PyObject("DataFrame", reviews.v)

\* One section of a result: a score, keywords and sample reviews.
Section(score, rows) ==
  PyDict([avg_score |-> PyFloat(score),
          keywords |-> PyList([i \in 1..Len(rows) |-> rows[i].v.company]),
          sample_reviews |-> PyList([i \in 1..Len(rows) |-> rows[i].v.company])])

\* ReviewSentimentAnalyzer.analyze_reviews_with_keywords: the result either
\* carries the scored table (with_table) or leaves the field empty.
analyze_reviews_with_keywords(df, with_table) ==
  PyDict([scored_df |-> IF with_table THEN PyObject("DataFrame", df.v.rows)
                        ELSE PyNone,
          pros |-> Section(Len(df.v.rows), df.v.rows),
          cons |-> Section(0, df.v.rows)])

\* A default response that lost its section nesting.
_get_default_response_flat ==
  PyDict([scored_df |-> PyObject("EmptyDataFrame", <<>>),
          avg_score |-> PyFloat(0),
          keywords |-> PyList(<<>>),
          sample_reviews |-> PyList(<<>>)])

\* ReviewAnalysisService._get_default_response
_get_default_response ==
  PyDict([scored_df |-> PyObject("EmptyDataFrame", <<>>),
          pros |-> PyDict([avg_score |-> PyFloat(0),
                           keywords |-> PyList(<<>>),
                           sample_reviews |-> PyList(<<>>)]),
          cons |-> PyDict([avg_score |-> PyFloat(0),
                           keywords |-> PyList(<<>>),
                           sample_reviews |-> PyList(<<>>)])])

\* ---------------------------------------------------------------- state
VARIABLES
  cache,      \* the Redis key space
  connected,  \* redis_client.is_connected and redis_client._redis is not None
  db,         \* number of reviews the record store holds per company
  call        \* call slot -> the coroutine running in it

vars == <<cache, connected, db, call>>

\* An empty call slot. The locals carry the names the code gives them;
\* trace lists the collaborator calls the coroutine has issued so far and
\* how tells how its latest step went: "ok", "raise", "false" (setex
\* reported failure), "typeerror" (json.dumps raised), "skipped" (Redis
\* unavailable at the check, nothing issued), "unavailable" (issued on a
\* dead connection and answered 0).
Idle ==
  [op |-> "none", arg |-> <<>>, pc |-> "idle", cache_key |-> <<>>,
   cached_result |-> PyNone, reviews |-> PyNone, df |-> PyNone,
   analysis_result |-> PyNone, set_ok |-> FALSE, keys |-> {},
   ret |-> PyNone, outcome |-> "none", trace |-> <<>>, how |-> "none"]

Init ==
  /\ cache = (ForeignKey :> [val |-> RawText("session-data"), ttl |-> -1])
  /\ connected = TRUE
  /\ db = [n \in CompanyNames |-> 0]
  /\ call = [p \in Calls |-> Idle]

\* A coroutine returns (or raises): its locals are gone, the caller sees the
\* result; what the cache read gave and the trace of collaborator calls it
\* made are kept for inspection.
Finish(c, result, outcome, ev, how) ==
  [Idle EXCEPT !.op = c.op, !.arg = c.arg, !.cache_key = c.cache_key,
               !.cached_result = c.cached_result,
               !.set_ok = c.set_ok, !.pc = "done", !.ret = result,
               !.outcome = outcome, !.trace = c.trace \o ev, !.how = how]

\* A _perform_analysis that hands the fetched reviews straight to the
\* analyzer: after get_reviews the call waits for analyze, not preprocess.
GotoSkipping(c, pc, ev, how) ==
  [c EXCEPT !.pc = IF pc = "preprocess" THEN "analyze" ELSE pc,
            !.trace = @ \o ev, !.how = how]

\* A coroutine goes on to program point pc after a step that went `how`.
Goto(c, pc, ev, how) == [c EXCEPT !.pc = pc, !.trace = @ \o ev, !.how = how]

\* A service that calls Redis without looking at the connection.
AlwaysAvailable == TRUE

\* if redis_client.is_connected and redis_client._redis is not None
Available == connected

\* A new call takes the lowest free slot.
Free(p) == call[p].pc = "idle" /\ \A q \in Calls : q < p => call[q].pc # "idle"

\* The transform stages a call can be waiting in.
TransformStages == {"preprocess", "analyze"}

\* A service whose transform stages run on the scheduling thread itself.
OnLoop(stage) == FALSE

\* loop.run_in_executor(None, ...): the stage runs on a worker thread and
\* the coroutine awaits its completion.
OnWorker(stage) == TRUE

\* The call's stage is being computed on the scheduling thread.
HoldsLoop(q) == call[q].pc \in TransformStages /\ ~OnWorker(call[q].pc)

\* The scheduling thread can run code of call p: no other call occupies it.
Runnable(p) == \A q \in Calls \ {p} : ~HoldsLoop(q)

\* A cache_key kept on the shared service instance: a call in flight sees
\* the key of whichever call set it last.
KeyOfShared(p) ==
  IF \E q \in Calls \ {p} : call[q].pc \notin {"idle", "done"} /\ call[q].cache_key # <<>>
  THEN call[CHOOSE q \in Calls \ {p} :
              call[q].pc \notin {"idle", "done"} /\ call[q].cache_key # <<>>].cache_key[1]
  ELSE call[p].cache_key[1]

\* The key a call works on.
KeyOf(p) == call[p].cache_key[1]

\* A delete issued for the company name itself instead of its derived key.
DeleteTargetRaw(p) == {[ns |-> "", digest |-> call[p].arg[1]]}

\* The keys clear_analysis_cache(company_name) hands to redis_client.delete.
DeleteTarget(p) == {KeyOf(p)}

\* ------------------------------------------------------- analysis_review
\* A caller starts analysis_review(name); the key is derived first.
CallAnalysisReview(p, name) ==
  /\ Free(p)
  /\ Runnable(p)
  /\ call' = [call EXCEPT ![p] = [Idle EXCEPT !.op = "analysis_review",
                !.arg = <<name>>, !.pc = "get_from_cache",
                !.cache_key = <<_get_cache_key(name)>>]]
  /\ UNCHANGED <<cache, connected, db>>

\* A _get_from_cache that falls through to `return None` on every path.
DecodeDropped(value) == PyNone

\* A _get_from_cache without the inner try: the JSONDecodeError reaches the
\* outer except and the read yields None.
DecodeStrict(value) ==
  IF value = <<>> \/ ~Parseable(value[1]) THEN PyNone
  ELSE json_loads(value[1])

\* What _get_from_cache returns for the value redis_client.get gave
\* (<<>> is None).
Decode(value) ==
  IF value = <<>> THEN PyNone
  ELSE IF Parseable(value[1]) THEN json_loads(value[1])
  ELSE PyStr(value[1].body)

\* cached_result = await self._get_from_cache(cache_key); if cached_result:
\* return cached_result. A get that raises is caught and yields None.
GetFromCache(p) ==
  /\ call[p].pc = "get_from_cache"
  /\ Runnable(p)
  /\ \E out \in {"ok", "raise"} :
       LET issued == Available
           value == IF issued /\ out = "ok" /\ KeyOf(p) \in DOMAIN cache
                    THEN <<cache[KeyOf(p)].val>> ELSE <<>>
           cached == Decode(value)
           ev == IF issued THEN <<"get">> ELSE <<>>
           how == IF issued THEN out ELSE "skipped"
       IN /\ (~issued => out = "ok")
          /\ call' = [call EXCEPT ![p] =
               IF Truthy(cached)
               THEN Finish([@ EXCEPT !.cached_result = cached], cached,
                           "return", ev, how)
               ELSE Goto([@ EXCEPT !.cached_result = cached],
                         "get_reviews", ev, how)]
  /\ UNCHANGED <<cache, connected, db>>

\* An except branch that returns nothing instead of the default response.
FallbackNone(c, event) == Finish(c, PyNone, "return", <<event>>, "raise")

\* The except branch of analysis_review: return self._get_default_response().
Fallback(c, event) ==
  Finish(c, _get_default_response, "return", <<event>>, "raise")

\* reviews = await self.get_reviews(name), inside _perform_analysis.
PerformGetReviews(p) ==
  /\ call[p].pc = "get_reviews"
  /\ Runnable(p)
  /\ \E out \in {"ok", "raise"} :
       call' = [call EXCEPT ![p] =
         IF out = "ok"
         THEN Goto([@ EXCEPT !.reviews =
                      get_reviews_by_company(call[p].arg[1], db[call[p].arg[1]])],
                   "preprocess", <<"get_reviews">>, "ok")
         ELSE Fallback(@, "get_reviews")]
  /\ UNCHANGED <<cache, connected, db>>

\* df = await loop.run_in_executor(None, preprocess_reviews, reviews)
PerformPreprocess(p) ==
  /\ call[p].pc = "preprocess"
  /\ Runnable(p)
  /\ \E out \in {"ok", "raise"} :
       call' = [call EXCEPT ![p] =
         IF out = "ok"
         THEN Goto([@ EXCEPT !.df = preprocess_reviews(call[p].reviews)],
                   "analyze", <<"preprocess">>, "ok")
         ELSE Fallback(@, "preprocess")]
  /\ UNCHANGED <<cache, connected, db>>

\* return await loop.run_in_executor(None, analyze_reviews_with_keywords, df)
PerformAnalyze(p) ==
  /\ call[p].pc = "analyze"
  /\ Runnable(p)
  /\ \E out \in {"table", "plain", "raise"} :
       call' = [call EXCEPT ![p] =
         IF out # "raise"
         THEN Goto([@ EXCEPT !.analysis_result =
                      analyze_reviews_with_keywords(call[p].df, out = "table")],
                   "set_to_cache", <<"analyze">>, "ok")
         ELSE Fallback(@, "analyze")]
  /\ UNCHANGED <<cache, connected, db>>

\* Whether redis-py can send the value as it is, and the text it sends.
RedisEncodable(value) == value.t \in {"str", "int", "float"}
RedisText(value) ==
  IF value.t = "str" THEN RawText(value.v) ELSE JsonText(ToJson(value))

\* A setex that writes only when the key is absent (SET NX).
StoreIfAbsent(c, key, text) ==
  IF key \in DOMAIN c THEN c
  ELSE Put(c, key, [val |-> text, ttl |-> CacheExpireTime])

\* redis_client.setex(key, expire_seconds, redis_value) with the configured
\* expiry: the entry is replaced and its TTL starts again.
Store(c, key, text) == Put(c, key, [val |-> text, ttl |-> CacheExpireTime])

\* A write step whose failure reaches the except branch of analysis_review.
AfterWriteUncaught(c, value, success, ev, how) ==
  Finish([c EXCEPT !.set_ok = success],
         IF success THEN value ELSE _get_default_response, "return", ev, how)

\* _set_to_cache catches what it raises and analysis_review ignores what it
\* returns: return analysis_result.
AfterWrite(c, value, success, ev, how) ==
  Finish([c EXCEPT !.set_ok = success], value, "return", ev, how)

\* await self._set_to_cache(cache_key, analysis_result, cache_expire_time);
\* return analysis_result. Whatever json.dumps or setex raises is caught.
SetToCache(p) ==
  /\ call[p].pc = "set_to_cache"
  /\ Runnable(p)
  /\ \E out \in {"ok", "false", "raise"} :
       LET value == call[p].analysis_result
           structured == value.t \in {"dict", "list"}
           dumps_raises == structured /\ ~Serializable(value)
           sendable == IF structured THEN ~dumps_raises ELSE RedisEncodable(value)
           redis_value == IF structured THEN json_dumps(value) ELSE RedisText(value)
           issued == Available /\ ~dumps_raises
           success == issued /\ sendable /\ out = "ok"
           ev == IF issued THEN <<"setex">> ELSE <<>>
           how == IF ~Available THEN "skipped"
                  ELSE IF dumps_raises THEN "typeerror"
                  ELSE IF ~sendable THEN "raise"
                  ELSE out
       IN /\ (~(issued /\ sendable) => out = "ok")
          /\ cache' = IF success
                      THEN Store(cache, KeyOf(p), redis_value)
                      ELSE cache
          /\ call' = [call EXCEPT ![p] = AfterWrite(@, value, success, ev, how)]
  /\ UNCHANGED <<connected, db>>

\* ------------------------------------------------- clear_analysis_cache
\* `if company_name:` is false for None (<<>>) and for the empty string.
NameGiven(arg) == arg # <<>> /\ Truthy(PyStr(arg[1]))

\* A caller starts clear_analysis_cache(company_name).
CallClearAnalysisCache(p, arg) ==
  /\ Free(p)
  /\ Runnable(p)
  /\ call' = [call EXCEPT ![p] =
       IF NameGiven(arg)
       THEN [Idle EXCEPT !.op = "clear_analysis_cache", !.arg = arg,
                         !.pc = "clear_delete",
                         !.cache_key = <<_get_cache_key(arg[1])>>]
       ELSE [Idle EXCEPT !.op = "clear_analysis_cache", !.arg = arg,
                         !.pc = "clear_keys"]]
  /\ UNCHANGED <<cache, connected, db>>

\* return redis_deleted
Cleared(c, n, ev, how) == Finish(c, PyInt(n), "return", ev, how)

\* A clear_analysis_cache that lets the exception out.
OnErrorReraise(c, ev) == Finish(c, PyNone, "raise", ev, "raise")

\* except Exception: return 0
OnError(c, ev) == Cleared(c, 0, ev, "raise")

\* redis_deleted = await redis_client.delete(cache_key); return redis_deleted
ClearDelete(p) ==
  /\ call[p].pc = "clear_delete"
  /\ Runnable(p)
  /\ \E out \in {"ok", "raise"} :
       LET issued == Available
           gone == IF issued /\ out = "ok"
                   THEN DeleteTarget(p) \cap DOMAIN cache ELSE {}
           ev == IF issued THEN <<"delete">> ELSE <<>>
       IN /\ (~issued => out = "ok")
          /\ cache' = Remove(cache, gone)
          /\ call' = [call EXCEPT ![p] =
               IF issued /\ out = "raise" THEN OnError(@, ev)
               ELSE Cleared(@, Cardinality(gone), ev,
                            IF issued THEN "ok" ELSE "skipped")]
  /\ UNCHANGED <<connected, db>>

\* keys = await redis_client.keys("review_analysis:*"); if keys: ...
ClearKeys(p) ==
  /\ call[p].pc = "clear_keys"
  /\ Runnable(p)
  /\ \E out \in {"ok", "raise"} :
       LET issued == Available
           found == IF issued /\ out = "ok"
                    THEN {k \in DOMAIN cache : MatchesPattern(k)} ELSE {}
           ev == IF issued THEN <<"keys">> ELSE <<>>
           how == IF issued THEN "ok" ELSE "skipped"
       IN /\ (~issued => out = "ok")
          /\ call' = [call EXCEPT ![p] =
               IF issued /\ out = "raise" THEN OnError(@, ev)
               ELSE IF found = {} THEN Cleared(@, 0, ev, how)
               ELSE Goto([@ EXCEPT !.keys = found], "clear_delete_keys", ev, how)]
  /\ UNCHANGED <<cache, connected, db>>

\* redis_deleted = await redis_client.delete(*keys); return redis_deleted.
\* The connection is not checked again here; on a dead connection the
\* client fails ("raise") or answers 0 ("unavailable").
ClearDeleteKeys(p) ==
  /\ call[p].pc = "clear_delete_keys"
  /\ Runnable(p)
  /\ \E out \in {"ok", "raise", "unavailable"} :
       LET gone == IF out = "ok" THEN call[p].keys \cap DOMAIN cache ELSE {}
       IN /\ (out = "ok" => connected)
          /\ (out = "unavailable" => ~connected)
          /\ cache' = Remove(cache, gone)
          /\ call' = [call EXCEPT ![p] =
               IF out = "raise" THEN OnError(@, <<"delete">>)
               ELSE Cleared(@, Cardinality(gone), <<"delete">>, out)]
  /\ UNCHANGED <<connected, db>>

\* ------------------------------------------------------------ get_reviews
\* A caller starts get_reviews(name).
CallGetReviews(p, name) ==
  /\ Free(p)
  /\ Runnable(p)
  /\ call' = [call EXCEPT ![p] = [Idle EXCEPT !.op = "get_reviews",
                !.arg = <<name>>, !.pc = "list_reviews"]]
  /\ UNCHANGED <<cache, connected, db>>

\* return await company_review_model.get_reviews_by_company(name): nothing
\* catches what the record store raises.
ListReviews(p) ==
  /\ call[p].pc = "list_reviews"
  /\ Runnable(p)
  /\ \E out \in {"ok", "raise"} :
       call' = [call EXCEPT ![p] =
         IF out = "ok"
         THEN Finish(@, get_reviews_by_company(call[p].arg[1],
                                               db[call[p].arg[1]]),
                     "return", <<"get_reviews">>, "ok")
         ELSE Finish(@, PyNone, "raise", <<"get_reviews">>, "raise")]
  /\ UNCHANGED <<cache, connected, db>>

\* The caller has taken the result; the slot is free again.
Return(p) ==
  /\ call[p].pc = "done"
  /\ Runnable(p)
  /\ call' = [call EXCEPT ![p] = Idle]
  /\ UNCHANGED <<cache, connected, db>>

\* ------------------------------------------------------------ environment
\* The Redis clock advances.
Tick ==
  /\ \E k \in DOMAIN cache : cache[k].ttl > 0
  /\ cache' = Expire(cache)
  /\ UNCHANGED <<connected, db, call>>

\* The Redis connection drops or comes back.
Disconnect ==
  /\ connected
  /\ connected' = FALSE
  /\ UNCHANGED <<cache, db, call>>

Reconnect ==
  /\ ~connected
  /\ connected' = TRUE
  /\ UNCHANGED <<cache, db, call>>

\* A review is added to the record store.
AddReview(name) ==
  /\ db[name] < MaxReviews
  /\ db' = [db EXCEPT ![name] = @ + 1]
  /\ UNCHANGED <<cache, connected, call>>

\* The arguments callers pass to clear_analysis_cache: None, "", or a name.
ClearArgs == {<<>>, <<"">>} \cup {<<n>> : n \in CompanyNames}

Next ==
  \/ \E p \in Calls, name \in CompanyNames : CallAnalysisReview(p, name)
  \/ \E p \in Calls : GetFromCache(p)
  \/ \E p \in Calls : PerformGetReviews(p)
  \/ \E p \in Calls : PerformPreprocess(p)
  \/ \E p \in Calls : PerformAnalyze(p)
  \/ \E p \in Calls : SetToCache(p)
  \/ \E p \in Calls, arg \in ClearArgs : CallClearAnalysisCache(p, arg)
  \/ \E p \in Calls : ClearDelete(p)
  \/ \E p \in Calls : ClearKeys(p)
  \/ \E p \in Calls : ClearDeleteKeys(p)
  \/ \E p \in Calls, name \in CompanyNames : CallGetReviews(p, name)
  \/ \E p \in Calls : ListReviews(p)
  \/ \E p \in Calls : Return(p)
  \/ Tick
  \/ Disconnect
  \/ Reconnect
  \/ \E name \in Reviewed : AddReview(name)

Spec == Init /\ [][Next]_vars

\* ================================================================ claims
Done(p) == call[p].pc = "done"
IsAnalysis(p) == call[p].op = "analysis_review"
IsClear(p) == call[p].op = "clear_analysis_cache"
Has(tr, e) == \E i \in 1..Len(tr) : tr[i] = e
LastEvent(tr) == IF tr = <<>> THEN "" ELSE tr[Len(tr)]

\* The finished analysis call c ended because a pipeline stage raised.
PipelineRaised(c) ==
  /\ LastEvent(c.trace) \in {"get_reviews", "preprocess", "analyze"}
  /\ c.how = "raise"
\* The calls a coroutine issues to Redis.
BackendEvents == {"get", "setex", "delete", "keys"}
\* The latest step of c was a Redis call that failed.
BackendFailed(c) ==
  /\ LastEvent(c.trace) \in BackendEvents
  /\ c.how \in {"raise", "false", "unavailable"}

\* The step in which call p leaves program point at.
Leaves(p, at) == call[p].pc = at /\ call'[p].pc # at

\* C1: cache-hit path. When analysis_review reads its key while Redis is
\* connected and answers, and an entry written by an earlier analysis is
\* there (not expired, not deleted), the call returns the decoded entry at
\* once: it ends with the read as its only collaborator call, so neither
\* get_reviews nor preprocess nor analyze is invoked.
C1_CacheHit ==
  [][\A p \in Calls :
       ( /\ Leaves(p, "get_from_cache")
         /\ connected
         /\ call'[p].how = "ok"
         /\ KeyOf(p) \in DOMAIN cache )
       => ( /\ call'[p].pc = "done"
            /\ call'[p].outcome = "return"
            /\ call'[p].ret = json_loads(cache[KeyOf(p)].val)
            /\ call'[p].trace = <<"get">> )]_vars

\* A call that was served from the cache.
C1_Witness ==
  \E p \in Calls :
    /\ Done(p) /\ IsAnalysis(p)
    /\ call[p].trace = <<"get">>
    /\ call[p].ret.t = "dict"

\* C2: cache-miss-then-store, as claimed. When a call that read its key
\* from a connected Redis, found nothing and ran get_reviews, preprocess
\* and analyze once each without a raise finishes its write step with Redis
\* connected and not failing the write, the key holds an entry.
C2_MissThenStore ==
  [][\A p \in Calls :
       ( /\ Leaves(p, "set_to_cache")
         /\ connected
         /\ call[p].trace = <<"get", "get_reviews", "preprocess", "analyze">>
         /\ call'[p].how \notin {"raise", "false"} )
       => KeyOf(p) \in DOMAIN cache']_vars

\* C3: failure fallback. A call in which get_reviews, preprocess or analyze
\* raised returns the default response normally and issued no cache write;
\* and no entry of the cache decodes to the default response.
C3_FailureFallback ==
  /\ \A p \in Calls :
       (Done(p) /\ IsAnalysis(p) /\ PipelineRaised(call[p]))
       => ( /\ call[p].ret = _get_default_response
            /\ call[p].outcome = "return"
            /\ ~call[p].set_ok
            /\ ~Has(call[p].trace, "setex") )
  /\ \A k \in DOMAIN cache :
       MatchesPattern(k) => Decode(<<cache[k].val>>) # _get_default_response

\* A call whose pipeline raised, while the cache holds an entry.
C3_Witness ==
  \E p \in Calls :
    /\ Done(p) /\ IsAnalysis(p) /\ PipelineRaised(call[p])
    /\ \E k \in DOMAIN cache : MatchesPattern(k)

\* A mapping with pros and cons sections, each holding a float score, a
\* sequence of keywords and a sequence of sample reviews.
WellShaped(x) ==
  /\ x.t = "dict"
  /\ {"pros", "cons"} \subseteq DOMAIN x.v
  /\ \A s \in {"pros", "cons"} :
       /\ x.v[s].t = "dict"
       /\ {"avg_score", "keywords", "sample_reviews"} \subseteq DOMAIN x.v[s].v
       /\ x.v[s].v["avg_score"].t = "float"
       /\ x.v[s].v["keywords"].t \in {"list", "tuple"}
       /\ x.v[s].v["sample_reviews"].t \in {"list", "tuple"}

C5_NoErrorCrossesBoundary ==
  \A p \in Calls : Done(p) => call[p].outcome = "return"

\* The keys of the review_analysis namespace present in a key space.
AnalysisKeys(c) == {k \in DOMAIN c : k.ns = "review_analysis"}

C7_AbsentAfterInvalidate ==
  \A p \in Calls :
    ( /\ Done(p) /\ IsClear(p) /\ NameGiven(call[p].arg)
      /\ call[p].trace = <<"delete">> /\ call[p].how = "ok" )
    => KeyOf(p) \notin DOMAIN cache

\* C7, amended: the step in which the delete of clear_analysis_cache(name)
\* is answered leaves the derived key absent and returns 1 if the key was
\* present at that step and 0 otherwise; and a review_analysis key that is
\* absent becomes present only by the cache write of an analysis_review
\* call for that key (one already in flight included).
C7_AbsentUntilRewritten ==
  [][/\ \A p \in Calls :
          ( /\ Leaves(p, "clear_delete")
            /\ call'[p].trace = <<"delete">> /\ call'[p].how = "ok" )
          => ( /\ _get_cache_key(call[p].arg[1]) \notin DOMAIN cache'
               /\ call'[p].outcome = "return"
               /\ call'[p].ret =
                    PyInt(IF _get_cache_key(call[p].arg[1]) \in DOMAIN cache
                          THEN 1 ELSE 0) )
     /\ \A k \in AnalysisKeys(cache') \ AnalysisKeys(cache) :
          \E q \in Calls :
            /\ IsAnalysis(q)
            /\ Leaves(q, "set_to_cache")
            /\ _get_cache_key(call[q].arg[1]) = k]_vars

\* An invalidation that removed an entry has returned 1, and an analysis
\* that was in flight has written the key again.
C7_Witness ==
  \E p, q \in Calls :
    /\ Done(p) /\ IsClear(p) /\ NameGiven(call[p].arg)
    /\ call[p].trace = <<"delete">> /\ call[p].how = "ok"
    /\ call[p].ret = PyInt(1)
    /\ Done(q) /\ IsAnalysis(q) /\ call[q].arg = call[p].arg
    /\ LastEvent(call[q].trace) = "setex" /\ call[q].how = "ok"
    /\ KeyOf(p) \in DOMAIN cache

\* C8, as claimed: a step of clear_analysis_cache called with an identifier
\* (any string, the empty one included) leaves every entry under a key other
\* than the identifier's derived key as it was, and the count it returns is
\* 0 or 1.
C8_InvalidationFrame ==
  [][\A p \in Calls :
       ( /\ IsClear(p) /\ call[p].arg # <<>>
         /\ call'[p] # call[p] )
       => ( /\ \A k \in DOMAIN cache \ {_get_cache_key(call[p].arg[1])} :
                 k \in DOMAIN cache' /\ cache'[k] = cache[k]
            /\ (call'[p].pc = "done" => call'[p].ret \in {PyInt(0), PyInt(1)}) )]_vars

\* C9, as claimed: when clear_analysis_cache() without identifier returns
\* after Redis answered its calls, no review_analysis key is left, whatever
\* analysis writes were interleaved with it.
C9_InvalidateAllLeavesNone ==
  [][\A p \in Calls :
       ( /\ IsClear(p) /\ call[p].arg = <<>>
         /\ call[p].pc # "done" /\ call'[p].pc = "done"
         /\ call'[p].how = "ok" )
       => AnalysisKeys(cache') = {}]_vars

\* C9, amended: the enumeration returns exactly the review_analysis keys
\* present at that step (and returns 0 at once when there are none); the
\* delete removes exactly the enumerated keys still present at its own step
\* and returns their number, leaving every other entry as it was. A key
\* written after the enumeration survives.
C9_InvalidateAllSnapshot ==
  [][\A p \in Calls :
       /\ ( /\ IsClear(p) /\ Leaves(p, "clear_keys")
            /\ call'[p].trace = <<"keys">> /\ call'[p].how = "ok" )
          => ( /\ cache' = cache
               /\ IF AnalysisKeys(cache) = {}
                  THEN call'[p].pc = "done" /\ call'[p].ret = PyInt(0)
                  ELSE /\ call'[p].pc = "clear_delete_keys"
                       /\ call'[p].keys = AnalysisKeys(cache) )
       /\ ( /\ IsClear(p) /\ Leaves(p, "clear_delete_keys")
            /\ call'[p].how = "ok" )
          => ( /\ DOMAIN cache' = DOMAIN cache \ call[p].keys
               /\ \A k \in DOMAIN cache' : cache'[k] = cache[k]
               /\ \A k \in call[p].keys : k.ns = "review_analysis"
               /\ call'[p].ret =
                    PyInt(Cardinality(call[p].keys \cap DOMAIN cache)) )]_vars

\* An invalidate-all has deleted what it enumerated and returned the count,
\* and a key written between its two steps is still there.
C9_Witness ==
  \E p \in Calls :
    /\ Done(p) /\ IsClear(p) /\ call[p].arg = <<>>
    /\ call[p].trace = <<"keys", "delete">> /\ call[p].how = "ok"
    /\ call[p].ret = PyInt(1)
    /\ AnalysisKeys(cache) # {}

\* C10: invalidation failure. clear_analysis_cache, with or without an
\* identifier, always returns an integer normally; it returns 0 whenever
\* Redis was unavailable at its connection check (no call issued) or a
\* delete or keys call failed.
C10_InvalidationFailure ==
  \A p \in Calls :
    (Done(p) /\ IsClear(p)) =>
      /\ call[p].outcome = "return"
      /\ call[p].ret.t = "int"
      /\ (call[p].how = "skipped" \/ BackendFailed(call[p]))
           => call[p].ret = PyInt(0)

\* Invalidations have ended on a failed delete and on a failed enumeration.
C10_Witness ==
  \E p, q \in Calls :
    /\ Done(p) /\ IsClear(p)
    /\ LastEvent(call[p].trace) = "delete" /\ call[p].how = "raise"
    /\ Done(q) /\ IsClear(q)
    /\ LastEvent(call[q].trace) = "keys" /\ call[q].how = "raise"

\* The result the pipeline computes for company n from k reviews.
ResultOf(n, k, with_table) ==
  analyze_reviews_with_keywords(
    preprocess_reviews(get_reviews_by_company(n, k)), with_table)

\* x is a result a call can compute from the records of company n.
ResultFor(x, n) ==
  \E k \in 0..MaxReviews : \E b \in BOOLEAN : x = ResultOf(n, k, b)

\* A step of call p leaves the locals of every other call as they were.
OthersUntouched(p) == \A q \in Calls \ {p} : call'[q] = call[q]

StepOf(q) ==
  \/ GetFromCache(q) \/ PerformGetReviews(q) \/ PerformPreprocess(q)
  \/ PerformAnalyze(q) \/ SetToCache(q)
  \/ ClearDelete(q) \/ ClearKeys(q) \/ ClearDeleteKeys(q)
  \/ ListReviews(q) \/ Return(q)

\* Call p is waiting for a transform stage to complete.
InTransform(p) == call[p].pc \in TransformStages

Words == {"good", "slow"}
WordSeqs == UNION {[1..n -> {PyStr(w) : w \in Words}] : n \in 0..MaxKeywords}

\* Results an analyzer can hand to the write path: sections with a float
\* score and keyword and sample sequences held as lists or as tuples, and an
\* auxiliary field that is empty or holds a table.
SectionSamples ==
  {PyDict([avg_score |-> PyFloat(s), keywords |-> PyList(ws),
           sample_reviews |-> PyList(ws)]) : s \in {0, 1}, ws \in WordSeqs}
  \cup
  {PyDict([avg_score |-> PyFloat(s), keywords |-> PyTuple(ws),
           sample_reviews |-> PyList(<<>>)]) : s \in {1}, ws \in WordSeqs}
ResultSamples ==
  {PyDict([scored_df |-> aux, pros |-> a, cons |-> b]) :
     aux \in {PyNone, PyObject("DataFrame", <<>>)},
     a \in SectionSamples,
     b \in {PyDict([avg_score |-> PyFloat(0), keywords |-> PyList(<<>>),
                    sample_reviews |-> PyList(<<>>)])}}

\* One analysis_review has its result in hand and is about to write it;
\* nothing else is in flight and Redis is connected.
InitRoundTrip ==
  /\ cache = (ForeignKey :> [val |-> RawText("session-data"), ttl |-> -1])
  /\ connected = TRUE
  /\ db = [n \in CompanyNames |-> 0]
  /\ \E name \in CompanyNames, r \in ResultSamples :
       call = [p \in Calls |->
                 IF p = 1
                 THEN [Idle EXCEPT !.op = "analysis_review",
                         !.arg = <<name>>, !.pc = "set_to_cache",
                         !.cache_key = <<_get_cache_key(name)>>,
                         !.analysis_result = r,
                         !.trace = <<"get", "get_reviews", "preprocess",
                                     "analyze">>,
                         !.how = "ok"]
                 ELSE Idle]

\* The write of the first call, and a second analysis_review reading back.
NextRoundTrip ==
  \/ SetToCache(1)
  \/ \E name \in CompanyNames : CallAnalysisReview(2, name)
  \/ GetFromCache(2)

SpecRoundTrip == InitRoundTrip /\ [][NextRoundTrip]_vars

\* Equality of Python values up to the kind of sequence (list or tuple).
RECURSIVE StructurallyEqual(_, _)
StructurallyEqual(a, b) ==
  CASE a.t \in {"list", "tuple"} ->
         /\ b.t \in {"list", "tuple"}
         /\ Len(a.v) = Len(b.v)
         /\ \A i \in 1..Len(a.v) : StructurallyEqual(a.v[i], b.v[i])
    [] a.t = "dict" ->
         /\ b.t = "dict"
         /\ DOMAIN a.v = DOMAIN b.v
         /\ \A k \in DOMAIN a.v : StructurallyEqual(a.v[k], b.v[k])
    [] OTHER -> a.t = b.t /\ a.v = b.v

\* C13: round trip. A result the write path stored is stored as JSON text,
\* and a read of the same key made right after the write, which Redis
\* answers, returns at once a value structurally equal to the one written:
\* the same keys and sections, the same float scores, the same keyword and
\* sample sequences.
C13_RoundTrip ==
  [][/\ ( /\ Leaves(1, "set_to_cache") /\ call'[1].set_ok )
        => ( /\ cache'[KeyOf(1)].val.kind = "json"
             /\ StructurallyEqual(Decode(<<cache'[KeyOf(1)].val>>),
                                  call[1].analysis_result) )
     /\ ( /\ Leaves(2, "get_from_cache")
          /\ Done(1) /\ call[1].set_ok
          /\ KeyOf(2) = KeyOf(1)
          /\ call'[2].how = "ok" )
        => ( /\ call'[2].pc = "done"
             /\ call'[2].trace = <<"get">>
             /\ StructurallyEqual(call'[2].ret, call[1].ret) )]_vars

\* A result holding a non-empty tuple of keywords was written and read back.
C13_Witness ==
  /\ Done(1) /\ call[1].set_ok
  /\ call[1].ret.v["pros"].v["keywords"].t = "tuple"
  /\ Len(call[1].ret.v["pros"].v["keywords"].v) > 0
  /\ Done(2) /\ call[2].trace = <<"get">>
  /\ KeyOf(2) = KeyOf(1)
  /\ call[2].ret # call[1].ret

\* The identifiers the model derives keys for.
Identifiers == CompanyNames \cup {""}

\* C14: key derivation. _get_cache_key gives keys of the form
\* review_analysis:<32-character digest>, the same key for the same
\* identifier and different keys for different identifiers; every call
\* works on the key derived from its own argument, so the key an
\* analysis_review reads and writes is the key clear_analysis_cache deletes
\* for the same name: the only key a named invalidation removes and the only
\* key an analysis adds is the derived one.
C14_KeyDerivation ==
  /\ [](/\ \A a, b \in Identifiers :
             (_get_cache_key(a) = _get_cache_key(b)) <=> (a = b)
        /\ \A a \in Identifiers :
             /\ _get_cache_key(a).ns = "review_analysis"
             /\ Len(_get_cache_key(a).digest) = 32
        /\ \A p \in Calls :
             call[p].cache_key # <<>> =>
               KeyOf(p) = _get_cache_key(call[p].arg[1])
        /\ AnalysisKeys(cache) \subseteq {_get_cache_key(n) : n \in CompanyNames})
  /\ [][\A p \in Calls :
          /\ Leaves(p, "clear_delete") =>
               /\ DOMAIN cache \ DOMAIN cache' \subseteq
                    {_get_cache_key(call[p].arg[1])}
               /\ (call'[p].how = "ok" =>
                     _get_cache_key(call[p].arg[1]) \notin DOMAIN cache')
          /\ Leaves(p, "set_to_cache") =>
               /\ DOMAIN cache' \ DOMAIN cache \subseteq
                    {_get_cache_key(call[p].arg[1])}
               /\ (call'[p].set_ok =>
                     _get_cache_key(call[p].arg[1]) \in DOMAIN cache')]_vars

\* An analysis wrote the entry of a company and an invalidation for the same
\* name then removed exactly that entry, while the other company's entry
\* stays.
C14_Witness ==
  \E p, q \in Calls :
    /\ Done(p) /\ IsAnalysis(p) /\ call[p].set_ok
    /\ Done(q) /\ IsClear(q) /\ call[q].arg = call[p].arg
    /\ call[q].trace = <<"delete">> /\ call[q].ret = PyInt(1)
    /\ KeyOf(p) = KeyOf(q)
    /\ KeyOf(p) \notin DOMAIN cache
    /\ AnalysisKeys(cache) # {}

\* The ways a cache write that was attempted on a connected Redis fails:
\* json.dumps raised, setex raised, setex reported failure.
WriteFailures == {"typeerror", "raise", "false"}

\* C15: write failure does not degrade the result. When the pipeline of a
\* call succeeded and its cache write fails (json.dumps raises on the
\* result, setex raises, or setex reports failure), analysis_review returns
\* normally the result its pipeline computed, which is not the default
\* response, and the whole cache, the entry under the call's key included,
\* is left as it was.
C15_WriteFailureKeepsResult ==
  [][\A p \in Calls :
       ( /\ Leaves(p, "set_to_cache")
         /\ call'[p].how \in WriteFailures )
       => ( /\ call'[p].pc = "done"
            /\ call'[p].outcome = "return"
            /\ ~call'[p].set_ok
            /\ call'[p].ret = call[p].analysis_result
            /\ ResultFor(call'[p].ret, call[p].arg[1])
            /\ call'[p].ret # _get_default_response
            /\ cache' = cache )]_vars

\* One call returned its result after json.dumps raised on it, another
\* after setex raised, and the entry an earlier write left under the key is
\* still there and is not the result of either.
C15_Witness ==
  \E p, q \in Calls :
    /\ Done(p) /\ IsAnalysis(p) /\ call[p].how = "typeerror"
    /\ Done(q) /\ IsAnalysis(q) /\ call[q].how = "raise"
    /\ LastEvent(call[q].trace) = "setex"
    /\ call[q].arg = call[p].arg
    /\ ResultFor(call[p].ret, call[p].arg[1])
    /\ KeyOf(p) \in DOMAIN cache
    /\ Decode(<<cache[KeyOf(p)].val>>) \notin {call[p].ret, call[q].ret}

\* --------------------------------------- entries the service did not write
\* Texts another writer can have left under a key of the namespace: text that
\* is no JSON document, the empty text, and the JSON documents of the falsy
\* values {}, [], "", 0, false and null.
ExternalText(i) ==
  CASE i = 1 -> RawText("not json")
    [] i = 2 -> RawText("")
    [] i = 3 -> json_dumps(PyDict(<<>>))
    [] i = 4 -> json_dumps(PyList(<<>>))
    [] i = 5 -> json_dumps(PyStr(""))
    [] i = 6 -> json_dumps(PyInt(0))
    [] i = 7 -> json_dumps(PyBool(FALSE))
    [] i = 8 -> json_dumps(PyNone)

\* The service starts on a Redis that already holds such a text, without
\* expiry, under the key of one company.
InitShared ==
  /\ connected = TRUE
  /\ db = [n \in CompanyNames |-> 0]
  /\ call = [p \in Calls |-> Idle]
  /\ \E n \in Reviewed, i \in 1..8 :
       cache = Put((ForeignKey :> [val |-> RawText("session-data"), ttl |-> -1]),
                   _get_cache_key(n), [val |-> ExternalText(i), ttl |-> -1])

SpecShared == InitShared /\ [][Next]_vars

\* The read of call p is answered by a connected Redis that holds an entry.
ReadsEntry(p) ==
  /\ Leaves(p, "get_from_cache")
  /\ connected
  /\ call'[p].how = "ok"
  /\ KeyOf(p) \in DOMAIN cache

\* C16: corrupt entry recovery. When the read of analysis_review is answered
\* with a non-empty text that is no JSON document, the call returns that
\* text as a string, normally and at once: the read is its only collaborator
\* call, so the pipeline is not invoked, and the cache is left as it was.
C16_CorruptEntry ==
  [][\A p \in Calls :
       ( /\ ReadsEntry(p)
         /\ ~Parseable(cache[KeyOf(p)].val)
         /\ cache[KeyOf(p)].val.body # "" )
       => ( /\ call'[p].pc = "done"
            /\ call'[p].outcome = "return"
            /\ call'[p].ret = PyStr(cache[KeyOf(p)].val.body)
            /\ call'[p].trace = <<"get">>
            /\ cache' = cache )]_vars

\* A call has returned the raw text of a corrupt entry, which is still there.
C16_Witness ==
  \E p \in Calls :
    /\ Done(p) /\ IsAnalysis(p)
    /\ call[p].trace = <<"get">>
    /\ call[p].ret = PyStr("not json")
    /\ KeyOf(p) \in DOMAIN cache
    /\ cache[KeyOf(p)].val = RawText("not json")

\* The falsy values: null, false, zero, the empty string, the empty sequence
\* and the empty mapping.
Falsy(x) ==
  \/ x.t = "None"
  \/ x.t = "bool" /\ ~x.v
  \/ x.t \in {"int", "float"} /\ x.v = 0
  \/ x.t = "str" /\ x.v = ""
  \/ x.t \in {"list", "tuple"} /\ Len(x.v) = 0
  \/ x.t = "dict" /\ DOMAIN x.v = {}

\* The call read an entry that decoded to a falsy value other than None
\* (None is also what an absent key gives).
ReadFalsy(c) == c.cached_result.t # "None" /\ Falsy(c.cached_result)

\* C17: a falsy cached value is a miss. When the read of analysis_review is
\* answered with an entry that decodes to a falsy value, the call goes on
\* exactly as a call that found no entry (only its local cached_result
\* holds the falsy value instead of None) and the cache is left as it was;
\* such a call runs get_reviews, preprocess and analyze once each, and when
\* its write is accepted the entry is replaced by its result with the
\* configured TTL.
C17_FalsyIsMiss ==
  /\ [][\A p \in Calls :
          /\ ( /\ ReadsEntry(p)
               /\ Falsy(Decode(<<cache[KeyOf(p)].val>>)) )
             => ( /\ call'[p] =
                       [Goto(call[p], "get_reviews", <<"get">>, "ok")
                          EXCEPT !.cached_result = Decode(<<cache[KeyOf(p)].val>>)]
                  /\ cache' = cache )
          /\ ( /\ Leaves(p, "set_to_cache")
               /\ ReadFalsy(call[p])
               /\ call'[p].set_ok )
             => ( /\ call[p].trace =
                       <<"get", "get_reviews", "preprocess", "analyze">>
                  /\ ResultFor(call'[p].ret, call[p].arg[1])
                  /\ cache'[KeyOf(p)] = [val |-> json_dumps(call'[p].ret),
                                         ttl |-> CacheExpireTime] )]_vars
  /\ [](\A p \in Calls :
          (IsAnalysis(p) /\ ReadFalsy(call[p]) /\ Done(p)) =>
            /\ call[p].trace # <<"get">>
            /\ call[p].ret # call[p].cached_result)

\* A call read an empty mapping, ran the pipeline and its write replaced the
\* entry by its result with the configured TTL.
C17_Witness ==
  \E p \in Calls :
    /\ Done(p) /\ IsAnalysis(p)
    /\ call[p].cached_result = PyDict(<<>>)
    /\ call[p].trace = <<"get", "get_reviews", "preprocess", "analyze", "setex">>
    /\ call[p].set_ok
    /\ KeyOf(p) \in DOMAIN cache
    /\ cache[KeyOf(p)] = [val |-> json_dumps(call[p].ret),
                          ttl |-> CacheExpireTime]

\* The order in which analysis_review calls its collaborators after the read.
MissOrder == <<"get_reviews", "preprocess", "analyze", "setex">>

\* The trace without its leading cache read, if it has one.
AfterRead(tr) ==
  IF tr # <<>> /\ tr[1] = "get" THEN SubSeq(tr, 2, Len(tr)) ELSE tr

\* The trace is the first n calls of the miss path, after at most one read.
RanFirst(tr, n) == AfterRead(tr) = SubSeq(MissOrder, 1, n)

\* C18: step ordering within one analysis_review. The collaborator calls of
\* a call are, in this order, at most one cache read, then get_reviews, then
\* preprocess, then analyze, then at most one cache write, each starting
\* only when the one before it has completed without raising; there is
\* never a delete or a key enumeration among them. A write is in the trace
\* only of a call whose read gave nothing truthy and whose analyze returned
\* the result the call returns; a call whose read gave a truthy value made
\* no other call.
C18_StepOrdering ==
  [](\A p \in Calls :
       IsAnalysis(p) =>
         LET c == call[p] IN
         /\ \E n \in 0..Len(MissOrder) : RanFirst(c.trace, n)
         /\ c.pc = "get_from_cache" => c.trace = <<>>
         /\ c.pc = "get_reviews" => RanFirst(c.trace, 0) /\ c.how \in {"ok", "raise", "skipped"}
         /\ c.pc = "preprocess" => RanFirst(c.trace, 1) /\ c.how = "ok"
         /\ c.pc = "analyze" => RanFirst(c.trace, 2) /\ c.how = "ok"
         /\ c.pc = "set_to_cache" =>
              /\ RanFirst(c.trace, 3) /\ c.how = "ok"
              /\ ResultFor(c.analysis_result, c.arg[1])
         /\ (c.pc = "done" /\ Has(c.trace, "setex")) =>
              /\ RanFirst(c.trace, 4)
              /\ Falsy(c.cached_result)
              /\ ResultFor(c.ret, c.arg[1])
         /\ (c.pc = "done" /\ ~Falsy(c.cached_result)) =>
              /\ c.trace = <<"get">>
              /\ c.ret = c.cached_result)

\* Both shapes of a finished call are present: one that went through all
\* five calls in order and one that stopped at the read.
C18_Witness ==
  \E p, q \in Calls :
    /\ Done(p) /\ IsAnalysis(p)
    /\ call[p].trace = <<"get">> \o MissOrder
    /\ Done(q) /\ IsAnalysis(q)
    /\ call[q].trace = <<"get">>
    /\ call[q].arg = call[p].arg

\* x is a result the pipeline can have computed for company n so far: the
\* record store only grows, so a fetch found at most db[n] reviews of n.
ComputedFor(x, n) ==
  \E k \in 0..db[n] : \E b \in BOOLEAN : x = ResultOf(n, k, b)

\* x is what a read gives back for a stored result of company n (a result
\* carrying a table cannot be stored).
StoredFor(x, n) ==
  \E k \in 0..db[n] : x = json_loads(json_dumps(ResultOf(n, k, FALSE)))

\* C19: no cross-identifier contamination. In every reachable state an
\* entry under the key of a company is the JSON text of a result the
\* pipeline computed from that company's own records, the result an
\* analysis_review is about to write was computed for its own argument,
\* and what a finished analysis_review returned is a result for
\* its own argument (read from the cache or computed) or the default
\* response.
C19_NoCrossContamination ==
  [](/\ \A n \in CompanyNames :
          _get_cache_key(n) \in DOMAIN cache =>
            \E k \in 0..db[n] :
              cache[_get_cache_key(n)].val = json_dumps(ResultOf(n, k, FALSE))
     /\ \A p \in Calls :
          IsAnalysis(p) =>
            LET c == call[p]
                n == c.arg[1]
            IN /\ c.pc = "set_to_cache" => ComputedFor(c.analysis_result, n)
               /\ c.pc = "done" =>
                    IF c.trace = <<"get">> THEN StoredFor(c.ret, n)
                    ELSE c.ret = _get_default_response \/ ComputedFor(c.ret, n))

\* Both companies have an entry, the two entries differ, and a call for the
\* reviewed company was served its own entry from the cache.
C19_Witness ==
  \E p \in Calls :
    /\ \A n \in CompanyNames : _get_cache_key(n) \in DOMAIN cache
    /\ \A n, m \in CompanyNames :
         n # m => cache[_get_cache_key(n)].val # cache[_get_cache_key(m)].val
    /\ Done(p) /\ IsAnalysis(p) /\ call[p].trace = <<"get">>
    /\ Len(call[p].ret.v["pros"].v["keywords"].v) > 0
    /\ call[p].ret = Decode(<<cache[KeyOf(p)].val>>)
====
